---- MODULE Spec2Model ----
(***************************************************************************)
(* Track catalog of the racing game (src/src/racing/mod.rs): the ordered   *)
(* list of race tracks with its optional current index, and the            *)
(* operations of impl TracksAsset.                                         *)
(*                                                                         *)
(* Option<T> is modelled as a sequence of length at most one: None is <<>> *)
(* and Some(v) is <<v>>.  Vec2 is a pair <<x, y>>.  A panic aborts the     *)
(* program: once panicked is TRUE no operation runs any more.              *)
(***************************************************************************)
EXTENDS Integers, Sequences, FiniteSets, TLC

\* ---------------------------------------------------------------- bounds
\* Largest number of tracks the catalog is grown to.
MaxTracks == 3
\* Largest index the selection is driven to on a catalog that holds no track
\* (a build without overflow checks lets get_next_track count upwards forever).
MaxIndex == 2

\* ------------------------------------------------------- option and usize
None == <<>>
Some(v) == <<v>>

\* usize::MAX.  The real value is 2^64 - 1; the model uses the largest integer
\* TLC represents.  Only two facts about it are used: it is larger
\* than every vector length, and adding one to it wraps to zero.
UsizeMax == 2147483647

\* ------------------------------------------------------------------ data
\* vec![vec2(-500., -200.), vec2(-500., -150.)]
SeedPath == << <<-500, -200>>, <<-500, -150>> >>

RaceTrack(name, pts) == [track_name |-> name, points |-> pts]

\* format!("Track {}", n)
TrackName(n) == "Track " \o ToString(n)

\* Point lists handed to update_current_track and carried by stored tracks.
PointInputs == { << <<0, 0>>, <<100, 0>>, <<100, 100>> >> }
\* Names of tracks handed to store_track by a caller.
StoreNames == { "Track 1", "Spa" }

\* Vec::get(i)
VecGet(v, i) == IF i < Len(v) THEN Some(v[i + 1]) ELSE None

\* Vec::remove(i), for i < len: the elements after i shift left.
VecRemove(v, i) == [k \in 1..(Len(v) - 1) |-> IF k <= i THEN v[k] ELSE v[k + 1]]

\* What one call leaves behind: the catalog's two fields, the value returned,
\* the out-of-range event the call performed ("none" if none) and whether the
\* call panicked.
Outcome(t, i, r, f, p) ==
    [tracks |-> t, current_track_index |-> i, ret |-> r, fault |-> f, panicked |-> p]

VARIABLES
    tracks,               \* TracksAsset.tracks
    current_track_index,  \* TracksAsset.current_track_index
    overflow_checks,      \* the build: TRUE = arithmetic overflow panics
    panicked,             \* the program has aborted
    fault,                \* out-of-range event of the last call
    last_op,              \* name of the last call
    last_arg,             \* Option: argument of the last call
    ret,                  \* Option<RaceTrack> returned by the last call
    pre_tracks,           \* tracks when the last call began
    pre_index,            \* current_track_index when the last call began
    last_mutation,        \* name of the last call that changed the catalog
    run_len,              \* number of consecutive calls of last_op
    run_start             \* current_track_index when that run began

\* The editor screen (src/src/screens/editor.rs) and the track geometry.
VARIABLES
    points,               \* ControlPoints.points
    selected,             \* ControlPoints.selected
    cp_changed,           \* ControlPoints changed since update_curve last ran
    edit_move,            \* MouseEditMove.start
    move_move,            \* MouseMoveMove.start
    mouse_position,       \* MousePosition.0
    curve,                \* Curves.0
    track_parts,          \* the live TrackPart entities, one entry per regeneration
    current_track,        \* CurrentTrack.0
    ct_changed,           \* CurrentTrack changed since instantiate_track last ran
    file,                 \* the document on disk: assets/1.track.json, or race.tracks
    system,               \* the system of the editor's chain that runs next
    ev,                   \* the last system run and whether it regenerated
    built                 \* Option: the point list of update_curve's last regeneration

\* The boundary computation and the ring tessellation, on a sample list.
VARIABLES
    samples,              \* the sampled positions handed to compute_bounds
    bounds,               \* the boundary pairs it returned
    mesh,                 \* the quads built from them
    stage                 \* how far the pipeline has run

catalog_vars ==
    << tracks, current_track_index, last_op, last_arg, ret, pre_tracks, pre_index,
       last_mutation, run_len, run_start >>

editor_vars ==
    << points, selected, cp_changed, edit_move, move_move, mouse_position, curve,
       track_parts, current_track, ct_changed, file, system, ev, built >>

geometry_vars == << samples, bounds, mesh, stage >>

vars == << catalog_vars, overflow_checks, panicked, fault, editor_vars, geometry_vars >>

\* -------------------------------------------------------------- operations
\* store_track of a name-keyed catalog: a track whose name is already in the
\* list replaces that entry and becomes the selected one.
store_track_replaces_by_name(t, idx, track) ==
    LET same == {k \in 1..Len(t) : t[k].track_name = track.track_name}
    IN  IF same = {}
        THEN Outcome(Append(t, track), Some(Len(t)), None, "none", FALSE)
        ELSE LET k == CHOOSE k \in same : TRUE
             IN  Outcome([t EXCEPT ![k] = track], Some(k - 1), None, "none", FALSE)

\* TracksAsset::store_track
store_track(t, idx, track) ==
    LET pushed == Append(t, track)
    IN  Outcome(pushed, Some(Len(pushed) - 1), None, "none", FALSE)

\* new_track with the name numbered by the count before the push instead of
\* count + 1.
new_track_numbered_from_zero(t, idx) ==
    store_track(t, idx, RaceTrack(TrackName(Len(t)), SeedPath))

\* TracksAsset::new_track
new_track(t, idx) ==
    store_track(t, idx, RaceTrack(TrackName(Len(t) + 1), SeedPath))

\* TracksAsset::get_current_track_mut, as the index of the track it borrows.
get_current_track_mut(t, idx) ==
    IF idx = None THEN None
    ELSE IF idx[1] < Len(t) THEN Some(idx[1]) ELSE None

\* update_current_track that overwrites the whole track with a fresh one
\* holding the points, losing its name.
update_current_track_loses_name(t, idx, pts) ==
    LET cur == get_current_track_mut(t, idx)
    IN  IF cur = None
        THEN Outcome(t, idx, None, "none", FALSE)
        ELSE Outcome([t EXCEPT ![cur[1] + 1] = RaceTrack("", pts)], idx, None, "none", FALSE)

\* TracksAsset::update_current_track
update_current_track(t, idx, pts) ==
    LET cur == get_current_track_mut(t, idx)
    IN  IF cur = None
        THEN Outcome(t, idx, None, "none", FALSE)
        ELSE Outcome([t EXCEPT ![cur[1] + 1].points = pts], idx, None, "none", FALSE)

\* TracksAsset::delete_current_track
delete_current_track(t, idx) ==
    IF idx = None
    THEN Outcome(t, idx, None, "none", FALSE)
    ELSE IF idx[1] >= Len(t)
         THEN \* Vec::remove panics: removal index out of bounds
              Outcome(t, idx, None, "remove_out_of_range", TRUE)
         ELSE Outcome(VecRemove(t, idx[1]), None, None, "none", FALSE)

\* get_next_track without the wrap at the last index.
get_next_track_no_wrap(t, idx, oc) ==
    IF idx = None
    THEN Outcome(t, Some(0), VecGet(t, 0), "none", FALSE)
    ELSE Outcome(t, Some(idx[1] + 1), VecGet(t, idx[1] + 1), "none", FALSE)

\* TracksAsset::get_next_track
get_next_track(t, idx, oc) ==
    IF idx = None
    THEN Outcome(t, Some(0), VecGet(t, 0), "none", FALSE)
    ELSE LET index == idx[1]
             empty == Len(t) = 0
             last  == IF empty THEN UsizeMax ELSE Len(t) - 1
             flt   == IF empty THEN "len_minus_one_on_empty" ELSE "none"
         IN  IF empty /\ oc
             THEN \* attempt to subtract with overflow
                  Outcome(t, idx, None, flt, TRUE)
             ELSE IF index = last
             THEN Outcome(t, Some(0), VecGet(t, 0), flt, FALSE)
             ELSE IF index = UsizeMax
             THEN \* index + 1 overflows
                  IF oc THEN Outcome(t, idx, None, flt, TRUE)
                  ELSE Outcome(t, Some(0), VecGet(t, 0), flt, FALSE)
             ELSE Outcome(t, Some(index + 1), VecGet(t, index + 1), flt, FALSE)

\* get_prev_track that stays at index 0 instead of wrapping to the last index.
get_prev_track_stops_at_zero(t, idx, oc) ==
    IF idx = None \/ idx[1] = 0
    THEN Outcome(t, Some(0), VecGet(t, 0), "none", FALSE)
    ELSE Outcome(t, Some(idx[1] - 1), VecGet(t, idx[1] - 1), "none", FALSE)

\* TracksAsset::get_prev_track
get_prev_track(t, idx, oc) ==
    IF idx = None
    THEN Outcome(t, Some(0), VecGet(t, 0), "none", FALSE)
    ELSE LET index == idx[1]
             empty == Len(t) = 0
             last  == IF empty THEN UsizeMax ELSE Len(t) - 1
         IN  IF index = 0
             THEN IF empty /\ oc
                  THEN \* attempt to subtract with overflow
                       Outcome(t, idx, None, "len_minus_one_on_empty", TRUE)
                  ELSE Outcome(t, Some(last), VecGet(t, last),
                               IF empty THEN "len_minus_one_on_empty" ELSE "none", FALSE)
             ELSE Outcome(t, Some(index - 1), VecGet(t, index - 1), "none", FALSE)

\* ------------------------------------------------------------------ state
\* impl Default for TracksAsset: an empty catalog on which new_track ran.
DefaultTracksAsset == new_track(<<>>, None)

\* An empty catalog (the struct literal Default starts from) or the default one.
InitialCatalogs ==
    { [tracks |-> <<>>, current_track_index |-> None],
      [tracks |-> DefaultTracksAsset.tracks,
       current_track_index |-> DefaultTracksAsset.current_track_index] }

\* The editor screen has not been entered: its resources do not exist.
EditorParked ==
    /\ points = <<>>
    /\ selected = None
    /\ cp_changed = FALSE
    /\ edit_move = None
    /\ move_move = None
    /\ mouse_position = None
    /\ curve = None
    /\ track_parts = <<>>
    /\ current_track = None
    /\ ct_changed = FALSE
    /\ file = [exists |-> FALSE, json |-> None]
    /\ system = "none"
    /\ ev = [system |-> "none", regenerated |-> FALSE]
    /\ built = None

\* No sample list is being processed.
GeometryParked ==
    /\ samples = <<>>
    /\ bounds = <<>>
    /\ mesh = <<>>
    /\ stage = "none"

Init ==
    /\ EditorParked
    /\ GeometryParked
    /\ \E c \in InitialCatalogs :
          /\ tracks = c.tracks
          /\ current_track_index = c.current_track_index
          /\ pre_tracks = c.tracks
          /\ pre_index = c.current_track_index
          /\ run_start = c.current_track_index
    /\ overflow_checks \in BOOLEAN
    /\ panicked = FALSE
    /\ fault = "none"
    /\ last_op = "construct"
    /\ last_arg = None
    /\ ret = None
    /\ last_mutation = "construct"
    /\ run_len = 0

\* The state after a call `op` with argument `arg` whose outcome is `o`.
Apply(op, arg, o) ==
    /\ tracks' = o.tracks
    /\ current_track_index' = o.current_track_index
    /\ panicked' = o.panicked
    /\ fault' = o.fault
    /\ ret' = o.ret
    /\ last_op' = op
    /\ last_arg' = arg
    /\ pre_tracks' = tracks
    /\ pre_index' = current_track_index
    /\ last_mutation' =
          IF o.tracks # tracks \/ o.current_track_index # current_track_index
          THEN op ELSE last_mutation
    /\ run_len' = IF last_op = op /\ run_len <= MaxTracks THEN run_len + 1 ELSE 1
    /\ run_start' = IF last_op = op /\ run_len <= MaxTracks
                    THEN run_start ELSE current_track_index
    /\ UNCHANGED << overflow_checks, editor_vars, geometry_vars >>

\* The selection stays within the model's range.
IndexInRange(o) ==
    \/ o.current_track_index = None
    \/ o.current_track_index[1] <= MaxIndex
    \/ o.current_track_index[1] = UsizeMax
    \/ o.current_track_index[1] < Len(o.tracks)

NewTrack ==
    /\ ~panicked
    /\ Len(tracks) < MaxTracks
    /\ Apply("new_track", None, new_track(tracks, current_track_index))

StoreTrack ==
    /\ ~panicked
    /\ Len(tracks) < MaxTracks
    /\ \E n \in StoreNames, pts \in PointInputs \cup {SeedPath} :
          Apply("store_track", Some(RaceTrack(n, pts)),
                store_track(tracks, current_track_index, RaceTrack(n, pts)))

UpdateCurrentTrack ==
    /\ ~panicked
    /\ \E pts \in PointInputs :
          Apply("update_current_track", Some(pts),
                update_current_track(tracks, current_track_index, pts))

DeleteCurrentTrack ==
    /\ ~panicked
    /\ Apply("delete_current_track", None,
             delete_current_track(tracks, current_track_index))

GetNextTrack ==
    /\ ~panicked
    /\ LET o == get_next_track(tracks, current_track_index, overflow_checks)
       IN  IndexInRange(o) /\ Apply("get_next_track", None, o)

GetPrevTrack ==
    /\ ~panicked
    /\ LET o == get_prev_track(tracks, current_track_index, overflow_checks)
       IN  IndexInRange(o) /\ Apply("get_prev_track", None, o)

Next ==
    \/ NewTrack
    \/ StoreTrack
    \/ UpdateCurrentTrack
    \/ DeleteCurrentTrack
    \/ GetNextTrack
    \/ GetPrevTrack

Spec == Init /\ [][Next]_vars

\* ====================================================================
\* The editor screen (src/src/screens/editor.rs)
\* ====================================================================

\* ---------------------------------------------------------------- bounds
\* Largest number of control points the editor's list is grown to.
MaxPoints == 3
\* Largest number of mouse button events one run of handle_mouse_press reads.
MaxButtonEvents == 1

\* let resolution = 100 * track_curve.segments().len();
EditorResolution == 100

\* ------------------------------------------------------------ JSON values
JNum(n) == [num |-> n]
JStr(str) == [str |-> str]
JArr(a) == [arr |-> a]
JObj(o) == [obj |-> o]

\* A serializer that writes the coordinates as [y, x].
Vec2ToJson_swaps(v) == JArr(<< JNum(v[2]), JNum(v[1]) >>)

\* Serialize for Vec2: the array [x, y].
Vec2ToJson(v) == JArr(<< JNum(v[1]), JNum(v[2]) >>)

\* #[derive(Serialize)] for RaceTrack: { "track_name": ..., "points": [...] }
RaceTrackToJson(t) ==
    JObj([track_name |-> JStr(t.track_name),
          points |-> JArr([k \in 1..Len(t.points) |-> Vec2ToJson(t.points[k])])])

\* Deserialize for Vec2: an array of exactly two numbers.
IsJsonVec2(j) ==
    /\ DOMAIN j = {"arr"}
    /\ Len(j.arr) = 2
    /\ \A k \in 1..2 : DOMAIN j.arr[k] = {"num"}

\* #[derive(Deserialize)] for RaceTrack, as an Option: None when the value
\* is not an object with a string track_name and an array of points.
RaceTrackFromJson(j) ==
    IF /\ DOMAIN j = {"obj"}
       /\ {"track_name", "points"} \subseteq DOMAIN j.obj
       /\ DOMAIN j.obj.track_name = {"str"}
       /\ DOMAIN j.obj.points = {"arr"}
       /\ \A k \in 1..Len(j.obj.points.arr) : IsJsonVec2(j.obj.points.arr[k])
    THEN Some(RaceTrack(j.obj.track_name.str,
                        [k \in 1..Len(j.obj.points.arr) |->
                            << j.obj.points.arr[k].arr[1].num,
                               j.obj.points.arr[k].arr[2].num >>]))
    ELSE None

\* A file: absent (or unreadable), or holding a text that is a JSON value
\* (json = Some(value)) or is no JSON at all (json = None).
NoFile == [exists |-> FALSE, json |-> None]
TextFile(j) == [exists |-> TRUE, json |-> j]

\* ------------------------------------------------------------- the camera
\* Cursor positions, in viewport coordinates.
CursorPositions == { <<100, 100>>, <<740, 260>> }

\* Camera::viewport_to_world_2d of a 2D camera at the origin over a 1280 x 720
\* viewport: x is measured from the centre and y points up.
ViewportToWorld(p) == << p[1] - 640, 360 - p[2] >>

\* -------------------------------------------------------------- the state
\* The editor's resources as one record.
EditorState ==
    [points |-> points, selected |-> selected, cp_changed |-> cp_changed,
     edit_move |-> edit_move, move_move |-> move_move,
     mouse_position |-> mouse_position, curve |-> curve,
     track_parts |-> track_parts, current_track |-> current_track,
     ct_changed |-> ct_changed, file |-> file, built |-> built,
     fault |-> "none", panicked |-> FALSE, regenerated |-> FALSE]

\* A panic with the given cause; the resources stay as the panic found them.
Panic(st, cause) == [st EXCEPT !.fault = cause, !.panicked = TRUE]

\* Vec::pop
VecPop(v) == IF Len(v) = 0 THEN v ELSE SubSeq(v, 1, Len(v) - 1)

\* --------------------------------------------------------- handle_keypress
\* KeyCode::KeyR
key_r(st) ==
    IF st.selected # None
    THEN IF st.selected[1] >= Len(st.points)
         THEN Panic([st EXCEPT !.cp_changed = TRUE], "remove_out_of_range")
         ELSE [st EXCEPT !.points = VecRemove(st.points, st.selected[1]),
                         !.selected = None,
                         !.cp_changed = TRUE]
    ELSE [st EXCEPT !.points = VecPop(st.points), !.cp_changed = TRUE]

\* save_to_file
save_to_file(st, write_ok) ==
    IF ~write_ok
    THEN Panic(st, "io_error")
    ELSE [st EXCEPT !.file =
            TextFile(Some(RaceTrackToJson(RaceTrack("Test Track", st.points))))]

\* load_from_file, as the Outcome of the call: the track read, or the panic of
\* one of its two unwraps.
load_from_file(f) ==
    IF ~f.exists THEN [track |-> None, fault |-> "io_error"]
    ELSE IF f.json = None THEN [track |-> None, fault |-> "parse_error"]
    ELSE LET t == RaceTrackFromJson(f.json[1])
         IN  IF t = None THEN [track |-> None, fault |-> "parse_error"]
             ELSE [track |-> t, fault |-> "none"]

\* KeyCode::KeyL
key_l(st) ==
    LET got == load_from_file(st.file)
    IN  IF got.fault # "none"
        THEN Panic(st, got.fault)
        ELSE [st EXCEPT !.points = got.track[1].points, !.cp_changed = TRUE]

\* KeyCode::ArrowLeft
key_left(st, oc) ==
    IF st.selected = None
    THEN [st EXCEPT !.selected = Some(0), !.cp_changed = TRUE]
    ELSE LET current == st.selected[1]
         IN  IF current = 0
             THEN IF Len(st.points) = 0
                  THEN IF oc
                       THEN Panic(st, "len_minus_one_on_empty")
                       ELSE [st EXCEPT !.selected = Some(UsizeMax), !.cp_changed = TRUE,
                                       !.fault = "len_minus_one_on_empty"]
                  ELSE [st EXCEPT !.selected = Some(Len(st.points) - 1),
                                  !.cp_changed = TRUE]
             ELSE [st EXCEPT !.selected = Some(current - 1), !.cp_changed = TRUE]

\* KeyCode::ArrowRight
key_right(st, oc) ==
    IF st.selected = None
    THEN [st EXCEPT !.selected = Some(0), !.cp_changed = TRUE]
    ELSE LET current == st.selected[1]
             empty == Len(st.points) = 0
             last == IF empty THEN UsizeMax ELSE Len(st.points) - 1
         IN  IF empty /\ oc
             THEN Panic(st, "len_minus_one_on_empty")
             ELSE [st EXCEPT !.selected = IF current >= last THEN Some(0)
                                          ELSE Some(current + 1),
                             !.cp_changed = TRUE,
                             !.fault = IF empty THEN "len_minus_one_on_empty" ELSE @]

\* The keys handle_keypress looks at, in the order of its if statements.
Keys == << "KeyR", "KeyS", "KeyL", "ArrowLeft", "ArrowRight" >>

\* The branch of handle_keypress for one key.
key_branch(st, key, write_ok, oc) ==
    CASE key = "KeyR" -> key_r(st)
      [] key = "KeyS" -> save_to_file(st, write_ok)
      [] key = "KeyL" -> key_l(st)
      [] key = "ArrowLeft" -> key_left(st, oc)
      [] key = "ArrowRight" -> key_right(st, oc)

\* handle_keypress from its k-th if statement on, with `pressed` the keys that
\* were just pressed.
RECURSIVE keypress_from(_, _, _, _, _)
keypress_from(k, st, pressed, write_ok, oc) ==
    IF k > Len(Keys) \/ st.panicked THEN st
    ELSE keypress_from(k + 1,
                       IF Keys[k] \in pressed
                       THEN key_branch(st, Keys[k], write_ok, oc) ELSE st,
                       pressed, write_ok, oc)

\* handle_keypress
handle_keypress(st, pressed, write_ok, oc) == keypress_from(1, st, pressed, write_ok, oc)

\* ------------------------------------------------------- handle_mouse_move
\* `cursor` is the position of the last CursorMoved event of the frame, if any.
handle_mouse_move(st, cursor) ==
    IF cursor = None THEN st ELSE [st EXCEPT !.mouse_position = cursor]

\* ------------------------------------------------------ handle_mouse_press
Buttons == { "Left", "Right", "Middle" }
ButtonStates == { "Pressed", "Released" }
ButtonEvents == [button : Buttons, state : ButtonStates]

\* An add gesture that appends the conversion of the release location.
left_button_appends_release_location(st, state, mouse_pos, cam_ok) ==
    IF state = "Pressed"
    THEN IF st.edit_move # None THEN st
         ELSE [st EXCEPT !.edit_move = Some(mouse_pos)]
    ELSE IF st.edit_move = None THEN st
         ELSE IF ~cam_ok THEN st
         ELSE [st EXCEPT !.points = Append(@, ViewportToWorld(mouse_pos)),
                         !.cp_changed = TRUE,
                         !.edit_move = None]

\* MouseButton::Left
left_button(st, state, mouse_pos, cam_ok) ==
    IF state = "Pressed"
    THEN IF st.edit_move # None THEN st
         ELSE [st EXCEPT !.edit_move = Some(mouse_pos)]
    ELSE IF st.edit_move = None THEN st
         ELSE IF ~cam_ok THEN st
         ELSE [st EXCEPT !.points = Append(@, ViewportToWorld(st.edit_move[1])),
                         !.cp_changed = TRUE,
                         !.edit_move = None]

\* A move gesture whose press also cancels a pending add gesture.
right_button_cancels_add(st, state, mouse_pos, cam_ok) ==
    IF st.selected = None THEN st
    ELSE IF state = "Pressed"
    THEN IF st.move_move # None THEN st
         ELSE [st EXCEPT !.move_move = Some(mouse_pos), !.edit_move = None]
    ELSE IF st.move_move = None THEN st
         ELSE IF ~cam_ok THEN st
         ELSE IF st.selected[1] >= Len(st.points)
         THEN Panic([st EXCEPT !.cp_changed = TRUE], "get_mut_out_of_range")
         ELSE [st EXCEPT !.points[st.selected[1] + 1] = ViewportToWorld(st.move_move[1]),
                         !.cp_changed = TRUE,
                         !.move_move = None]

\* A move gesture that a release with a failed conversion ends.
right_button_drops_failed_move(st, state, mouse_pos, cam_ok) ==
    IF st.selected = None THEN st
    ELSE IF state = "Pressed"
    THEN IF st.move_move # None THEN st
         ELSE [st EXCEPT !.move_move = Some(mouse_pos)]
    ELSE IF st.move_move = None THEN st
         ELSE IF ~cam_ok THEN [st EXCEPT !.move_move = None]
         ELSE IF st.selected[1] >= Len(st.points)
         THEN Panic([st EXCEPT !.cp_changed = TRUE], "get_mut_out_of_range")
         ELSE [st EXCEPT !.points[st.selected[1] + 1] = ViewportToWorld(st.move_move[1]),
                         !.cp_changed = TRUE,
                         !.move_move = None]

\* MouseButton::Right
right_button(st, state, mouse_pos, cam_ok) ==
    IF st.selected = None THEN st
    ELSE IF state = "Pressed"
    THEN IF st.move_move # None THEN st
         ELSE [st EXCEPT !.move_move = Some(mouse_pos)]
    ELSE IF st.move_move = None THEN st
         ELSE IF ~cam_ok THEN st
         ELSE IF st.selected[1] >= Len(st.points)
         THEN Panic([st EXCEPT !.cp_changed = TRUE], "get_mut_out_of_range")
         ELSE [st EXCEPT !.points[st.selected[1] + 1] = ViewportToWorld(st.move_move[1]),
                         !.cp_changed = TRUE,
                         !.move_move = None]

\* One iteration of the loop over the button events.
button_event(st, e, mouse_pos, cam_ok) ==
    CASE e.button = "Left" -> left_button(st, e.state, mouse_pos, cam_ok)
      [] e.button = "Right" -> right_button(st, e.state, mouse_pos, cam_ok)
      [] OTHER -> st

\* The loop of handle_mouse_press from the k-th event on.
RECURSIVE button_events_from(_, _, _, _, _)
button_events_from(k, st, events, mouse_pos, cam_ok) ==
    IF k > Len(events) \/ st.panicked THEN st
    ELSE button_events_from(k + 1, button_event(st, events[k], mouse_pos, cam_ok),
                            events, mouse_pos, cam_ok)

\* handle_mouse_press
handle_mouse_press(st, events, cam_ok) ==
    IF st.mouse_position = None THEN st
    ELSE button_events_from(1, st, events, st.mouse_position[1], cam_ok)

\* ------------------------------------------------------------ regeneration
\* The segments to_curve_cyclic builds from n >= 2 control points: segment k
\* runs from point k to its cyclic successor and is shaped by the points
\* before and after them.
CyclicSegments(pts) ==
    LET n == Len(pts)
        at(k) == pts[((k - 1) % n) + 1]
    IN  [k \in 1..n |-> << at(k - 1), at(k), at(k + 1), at(k + 2) >>]

\* A curve fit that does not close the curve (to_curve): no curve for fewer
\* than 4 points, else one segment per window of four points.
form_curve_open(pts) ==
    IF Len(pts) < 4 THEN None
    ELSE Some([control_points |-> pts, segments |-> Len(pts) - 3])

\* CubicCardinalSpline::new_catmull_rom(points).to_curve_cyclic().ok(): no
\* curve for fewer than 2 points, else a closed curve of one segment per point.
form_curve(pts) ==
    IF Len(pts) < 2 THEN None
    ELSE Some([control_points |-> pts, segments |-> Len(CyclicSegments(pts))])

\* CubicCurve::iter_positions(subdivisions).count(): the positions at
\* 0..=subdivisions.
SampleCount(subdivisions) == subdivisions + 1

\* A regeneration that leaves the earlier TrackPart entities alive.
retire_keeps(parts) == parts

\* for mesh in mesh_query.iter_mut() { commands.entity(mesh).despawn(); }
\* The despawn and spawn commands of a regeneration are applied together,
\* before the next system that queries the TrackPart entities runs.
retire(parts) == <<>>

\* The TrackPart entities one regeneration spawns: one quad per boundary
\* pair, one boundary pair per sample.
TrackParts(by, pts, quads) == [by |-> by, points |-> pts, quads |-> quads]

\* update_curve
update_curve(st) ==
    IF ~st.cp_changed THEN st
    ELSE LET c == form_curve(st.points)
         IN  IF c = None
             THEN Panic([st EXCEPT !.curve = None, !.cp_changed = FALSE],
                        "unwrap_on_none_curve")
             ELSE [st EXCEPT
                     !.curve = c,
                     !.cp_changed = FALSE,
                     !.track_parts =
                         Append(retire(@),
                                TrackParts("update_curve", st.points,
                                           SampleCount(EditorResolution * c[1].segments))),
                     !.built = Some(st.points),
                     !.regenerated = TRUE]

\* pub const RESOLUTION: usize = 5;
RESOLUTION == 5

\* RaceTrack::get_bounds, as the number of boundary pairs; None stands for the
\* panic of its unwrap.
get_bounds_len(track) ==
    LET c == form_curve(track.points)
    IN  IF c = None THEN None
        ELSE Some(SampleCount(RESOLUTION * c[1].segments))

\* instantiate_track
instantiate_track(st) ==
    IF st.current_track = None \/ ~st.ct_changed
    THEN [st EXCEPT !.ct_changed = FALSE]
    ELSE LET track == st.current_track[1]
             n == get_bounds_len(track)
         IN  IF n = None
             THEN Panic([st EXCEPT !.ct_changed = FALSE], "unwrap_on_none_curve")
             ELSE [st EXCEPT
                     !.ct_changed = FALSE,
                     !.track_parts =
                         Append(retire(@),
                                TrackParts("instantiate_track", track.points, n[1])),
                     !.regenerated = TRUE]

\* ----------------------------------------------------------------- actions
\* Sequences of at most n button events.
RECURSIVE EventSeqs(_)
EventSeqs(n) ==
    IF n = 0 THEN { <<>> }
    ELSE EventSeqs(n - 1) \cup
         { Append(s, e) : s \in { q \in EventSeqs(n - 1) : Len(q) = n - 1 },
                          e \in ButtonEvents }

\* The documents found at assets/1.track.json when the editor starts.
InitialFiles ==
    { NoFile,
      TextFile(Some(JObj([track_name |-> JStr("Test Track")]))),
      TextFile(Some(RaceTrackToJson(RaceTrack("Test Track", <<>>)))),
      TextFile(Some(RaceTrackToJson(RaceTrack("Test Track", SeedPath)))) }

\* The tracks spawn_level hands over as CurrentTrack.
CurrentTrackInputs ==
    { None,
      Some(RaceTrack("Track 1", SeedPath)),
      Some(RaceTrack("Spa", << <<0, 0>> >>)),
      Some(RaceTrack("Square", << <<0, 0>>, <<100, 0>>, <<100, 100>>, <<0, 100>> >>)) }

\* The catalog is not in use while the editor runs.
CatalogParked ==
    /\ tracks = <<>>
    /\ current_track_index = None
    /\ pre_tracks = <<>>
    /\ pre_index = None
    /\ run_start = None
    /\ last_op = "construct"
    /\ last_arg = None
    /\ ret = None
    /\ last_mutation = "construct"
    /\ run_len = 0

\* setup_editor has run; the document on disk is one of `files`.
EditorInitWith(files) ==
    /\ CatalogParked
    /\ GeometryParked
    /\ overflow_checks \in BOOLEAN
    /\ panicked = FALSE
    /\ fault = "none"
    /\ points = SeedPath
    /\ selected = None
    /\ cp_changed = TRUE
    /\ edit_move = None
    /\ move_move = None
    /\ mouse_position = None
    /\ curve = form_curve(SeedPath)
    /\ track_parts = <<>>
    /\ current_track = None
    /\ ct_changed = FALSE
    /\ file \in files
    /\ system = "handle_keypress"
    /\ ev = [system |-> "setup_editor", regenerated |-> FALSE]
    /\ built = None

\* The state after system `sys` ran and left `st`; `next` runs next.
EditorApply(sys, st, next) ==
    /\ points' = st.points
    /\ selected' = st.selected
    /\ cp_changed' = st.cp_changed
    /\ edit_move' = st.edit_move
    /\ move_move' = st.move_move
    /\ mouse_position' = st.mouse_position
    /\ curve' = st.curve
    /\ track_parts' = st.track_parts
    /\ current_track' = st.current_track
    /\ ct_changed' = st.ct_changed
    /\ file' = st.file
    /\ built' = st.built
    /\ fault' = st.fault
    /\ panicked' = st.panicked
    /\ system' = next
    /\ ev' = [system |-> sys, regenerated |-> st.regenerated]
    /\ UNCHANGED << catalog_vars, overflow_checks, geometry_vars >>

\* The key names of Keys.
AllKeys == { Keys[k] : k \in 1..Len(Keys) }

\* handle_keypress in a frame in which some of `keys` were just pressed.
HandleKeypress(keys) ==
    /\ ~panicked
    /\ system = "handle_keypress"
    /\ \E pressed \in SUBSET keys :
       \E write_ok \in IF "KeyS" \in pressed THEN BOOLEAN ELSE {TRUE} :
          LET st == handle_keypress(EditorState, pressed, write_ok, overflow_checks)
          IN  /\ Len(st.points) <= MaxPoints
              /\ EditorApply("handle_keypress", st, "handle_mouse_move")

\* handle_mouse_move in a frame in which the cursor stayed or moved to one of
\* `positions`.
HandleMouseMove(positions) ==
    /\ ~panicked
    /\ system = "handle_mouse_move"
    /\ \E cursor \in {None} \cup { Some(p) : p \in positions } :
          EditorApply("handle_mouse_move", handle_mouse_move(EditorState, cursor),
                      "handle_mouse_press")

\* handle_mouse_press in a frame with button events of `buttons`.
HandleMousePress(buttons) ==
    /\ ~panicked
    /\ system = "handle_mouse_press"
    /\ \E events \in { q \in EventSeqs(MaxButtonEvents) :
                          \A k \in 1..Len(q) : q[k].button \in buttons } :
       \E cam_ok \in IF \E k \in 1..Len(events) : events[k].state = "Released"
                      THEN BOOLEAN ELSE {TRUE} :
          LET st == handle_mouse_press(EditorState, events, cam_ok)
          IN  /\ Len(st.points) <= MaxPoints
              /\ EditorApply("handle_mouse_press", st, "update_curve")

UpdateCurve ==
    /\ ~panicked
    /\ system = "update_curve"
    /\ EditorApply("update_curve", update_curve(EditorState), "handle_keypress")

\* spawn_level: current_track.0 = tracks.get_next_track().cloned()
SpawnLevel ==
    /\ ~panicked
    /\ system = "handle_keypress"
    /\ \E t \in CurrentTrackInputs :
          EditorApply("spawn_level",
                      [EditorState EXCEPT !.current_track = t, !.ct_changed = TRUE],
                      "handle_keypress")

InstantiateTrack ==
    /\ ~panicked
    /\ system = "handle_keypress"
    /\ EditorApply("instantiate_track", instantiate_track(EditorState), "handle_keypress")

\* The editor with every mouse gesture and every key but the save key: the
\* document on disk stays as it was found.
EditorInit == EditorInitWith(InitialFiles)

EditorNext ==
    \/ HandleKeypress(AllKeys \ {"KeyS"})
    \/ HandleMouseMove(CursorPositions)
    \/ HandleMousePress(Buttons)
    \/ UpdateCurve

EditorSpec == EditorInit /\ [][EditorNext]_vars

\* The track geometry under both of its producers: the editor frames that add
\* and delete points, and the gameplay systems that hand over a track and
\* instantiate it between them.
RegenInit == EditorInitWith({NoFile})

RegenNext ==
    \/ HandleKeypress({"KeyR"})
    \/ HandleMouseMove({ <<100, 100>> })
    \/ HandleMousePress({"Left"})
    \/ UpdateCurve
    \/ SpawnLevel
    \/ InstantiateTrack

RegenSpec == RegenInit /\ [][RegenNext]_vars

\* The editor with the save key: points are added and deleted, saved and
\* loaded back.
PersistInit ==
    EditorInitWith({ NoFile,
                     TextFile(None),
                     TextFile(Some(RaceTrackToJson(RaceTrack("Test Track", SeedPath)))) })

PersistNext ==
    \/ HandleKeypress({"KeyR", "KeyS", "KeyL"})
    \/ HandleMouseMove({ <<100, 100>> })
    \/ HandleMousePress({"Left"})
    \/ UpdateCurve

PersistSpec == PersistInit /\ [][PersistNext]_vars

\* ------------------------------------------------- the start of gameplay
\* The JSON value null.
JNull == [null |-> TRUE]

\* Deserialize for Option<usize> accepts null and a non-negative integer
\* that fits a usize.
IsJsonOptionUsize(j) ==
    \/ DOMAIN j = {"null"}
    \/ DOMAIN j = {"num"} /\ j.num >= 0 /\ j.num <= UsizeMax

\* Deserialize for Option<usize>: null is None, an integer is Some.
OptionUsizeFromJson(j) == IF DOMAIN j = {"null"} THEN None ELSE Some(j.num)

\* #[derive(Deserialize)] for TracksAsset, as an Option: None when the value
\* is not an object with an array of tracks and, if present, an index that is
\* null or a usize.  A missing current_track_index is None.
TracksAssetFromJson(j) ==
    IF /\ DOMAIN j = {"obj"}
       /\ "tracks" \in DOMAIN j.obj
       /\ DOMAIN j.obj.tracks = {"arr"}
       /\ \A k \in 1..Len(j.obj.tracks.arr) :
              RaceTrackFromJson(j.obj.tracks.arr[k]) # None
       /\ "current_track_index" \in DOMAIN j.obj =>
              IsJsonOptionUsize(j.obj.current_track_index)
    THEN Some([tracks |-> [k \in 1..Len(j.obj.tracks.arr) |->
                              RaceTrackFromJson(j.obj.tracks.arr[k])[1]],
               current_track_index |->
                   IF "current_track_index" \in DOMAIN j.obj
                   THEN OptionUsizeFromJson(j.obj.current_track_index)
                   ELSE None])
    ELSE None

\* TracksAssetLoader::load, as an Option: None when the bytes cannot be read,
\* otherwise the parsed catalog, or TracksAsset::default() when parsing fails.
TracksAssetLoader_load(f) ==
    IF ~f.exists THEN None
    ELSE LET parsed == IF f.json = None THEN None ELSE TracksAssetFromJson(f.json[1])
         IN  IF parsed = None
             THEN Some([tracks |-> DefaultTracksAsset.tracks,
                        current_track_index |-> DefaultTracksAsset.current_track_index])
             ELSE parsed

\* A catalog document with n tracks and the given current_track_index value.
CatalogJson(n, index) ==
    JObj([tracks |-> JArr([k \in 1..n |-> RaceTrackToJson(RaceTrack(TrackName(k), SeedPath))]),
          current_track_index |-> index])

\* The documents found at assets/race.tracks.
CatalogFiles ==
    { NoFile,
      TextFile(None),
      TextFile(Some(JObj([current_track_index |-> JNull]))),
      TextFile(Some(JObj([tracks |-> JArr(<< RaceTrackToJson(RaceTrack("Spa", SeedPath)) >>)]))),
      TextFile(Some(CatalogJson(1, JNum(-1)))) }
    \cup { TextFile(Some(CatalogJson(n, index))) :
              n \in 0..MaxTracks,
              index \in {JNull, JNum(UsizeMax)} \cup { JNum(i) : i \in 0..MaxIndex } }

\* The app has started; the catalog asset has not been loaded yet.
StartInit ==
    /\ CatalogParked
    /\ GeometryParked
    /\ overflow_checks \in BOOLEAN
    /\ panicked = FALSE
    /\ fault = "none"
    /\ points = <<>>
    /\ selected = None
    /\ cp_changed = FALSE
    /\ edit_move = None
    /\ move_move = None
    /\ mouse_position = None
    /\ curve = None
    /\ track_parts = <<>>
    /\ current_track = None
    /\ ct_changed = FALSE
    /\ file \in CatalogFiles
    /\ system = "load"
    /\ ev = [system |-> "none", regenerated |-> FALSE]
    /\ built = None

\* The state after `op` left the catalog as in `o` and CurrentTrack as `ct`.
StartApply(op, o, ct, changed, next) ==
    /\ tracks' = o.tracks
    /\ current_track_index' = o.current_track_index
    /\ panicked' = o.panicked
    /\ fault' = o.fault
    /\ ret' = o.ret
    /\ last_op' = op
    /\ last_arg' = None
    /\ pre_tracks' = tracks
    /\ pre_index' = current_track_index
    /\ last_mutation' =
          IF o.tracks # tracks \/ o.current_track_index # current_track_index
          THEN op ELSE last_mutation
    /\ run_len' = IF last_op = op /\ run_len <= MaxTracks THEN run_len + 1 ELSE 1
    /\ run_start' = IF last_op = op /\ run_len <= MaxTracks
                    THEN run_start ELSE current_track_index
    /\ current_track' = ct
    /\ ct_changed' = changed
    /\ system' = next
    /\ ev' = [system |-> op, regenerated |-> FALSE]
    /\ UNCHANGED << points, selected, cp_changed, edit_move, move_move, mouse_position,
                    curve, track_parts, file, built, overflow_checks, geometry_vars >>

\* The asset server runs TracksAssetLoader::load on race.tracks.  When the
\* read fails the asset never becomes available and the level is not spawned.
LoadCatalog ==
    /\ ~panicked
    /\ system = "load"
    /\ LET a == TracksAssetLoader_load(file)
       IN  IF a = None
           THEN StartApply("load", Outcome(tracks, current_track_index, None, "io_error", FALSE),
                           current_track, ct_changed, "load_failed")
           ELSE StartApply("load", Outcome(a[1].tracks, a[1].current_track_index, None,
                                           "none", FALSE),
                           current_track, ct_changed, "spawn_level")

\* spawn_level on the loaded catalog, each time the gameplay screen is entered:
\* current_track.0 = tracks.get_next_track().cloned()
SpawnLevelOnCatalog ==
    /\ ~panicked
    /\ system = "spawn_level"
    /\ LET o == get_next_track(tracks, current_track_index, overflow_checks)
       IN  /\ IndexInRange(o)
           /\ IF o.panicked
              THEN StartApply("spawn_level", o, current_track, ct_changed, "spawn_level")
              ELSE StartApply("spawn_level", o, o.ret, TRUE, "spawn_level")

StartNext ==
    \/ LoadCatalog
    \/ SpawnLevelOnCatalog

StartSpec == StartInit /\ [][StartNext]_vars

\* ====================================================================
\* The boundary computation and the ring tessellation
\* (compute_bounds and update_curve in src/src/screens/editor.rs,
\*  RaceTrack::get_bounds in src/src/racing/mod.rs, instantiate_track in
\*  src/src/game/level.rs)
\* ====================================================================

\* Largest number of samples in a list handed to compute_bounds.
MaxSamples == 3

\* Sampled positions: points of one line through the origin, so that every
\* difference of two of them has an integral length.
SamplePositions == { <<0, 0>>, <<3, 4>>, <<6, 8>>, <<-3, -4>> }

\* The sample lists of length n.
RECURSIVE SampleLists(_)
SampleLists(n) ==
    IF n = 0 THEN { <<>> }
    ELSE { Append(l, q) : l \in SampleLists(n - 1), q \in SamplePositions }

\* ---------------------------------------------------------------- numbers
\* The f32 nearest to pi/2 is not pi/2 and the f32 nearest to pi is not pi:
\* cos(-FRAC_PI_2) is -e and sin(PI) is -2e for e = 4.371139e-8.  A number
\* a + b*e is the pair << a, b >>; products drop the e*e term.
Num(a) == << a, 0 >>
NumAdd(p, q) == << p[1] + q[1], p[2] + q[2] >>
NumSub(p, q) == << p[1] - q[1], p[2] - q[2] >>
NumMul(p, q) == << p[1] * q[1], p[1] * q[2] + p[2] * q[1] >>

\* Vec2 over these numbers.
NumVec(v) == << Num(v[1]), Num(v[2]) >>
NumVecAdd(v, w) == << NumAdd(v[1], w[1]), NumAdd(v[2], w[2]) >>

\* Vec2::from_angle(std::f32::consts::PI / -2.0) = (cos, sin) = (-e, -1)
FromAngleMinusHalfPi == << << 0, -1 >>, << -1, 0 >> >>
\* Vec2::from_angle(std::f32::consts::PI) = (cos, sin) = (-1, -2e)
FromAnglePi == << << -1, 0 >>, << 0, -2 >> >>

\* Vec2::rotate: (x * rhs.x - y * rhs.y, y * rhs.x + x * rhs.y)
rotate(v, rhs) ==
    << NumSub(NumMul(v[1], rhs[1]), NumMul(v[2], rhs[2])),
       NumAdd(NumMul(v[2], rhs[1]), NumMul(v[1], rhs[2])) >>

\* The half-width of the track: the factor 20.0 of the normal.
HalfWidth == 20

\* The integral square root.
ISqrt(n) == CHOOSE r \in 0..n : r * r <= n /\ n < (r + 1) * (r + 1)

\* tangent.normalize_or_zero(), times the half-width: the zero vector for a
\* zero tangent, else the vector of length HalfWidth along the tangent.  (The
\* code scales after the rotation; the rotation is linear, and scaling first
\* keeps the coordinates integral.)
normalize_or_zero(v) ==
    LET l == ISqrt(v[1] * v[1] + v[2] * v[2])
    IN  IF l = 0 THEN << 0, 0 >>
        ELSE << (HalfWidth * v[1]) \div l, (HalfWidth * v[2]) \div l >>

\* --------------------------------------------------------- compute_bounds
\* The tangent estimate at the k-th sample (k counts from 1), doubled: the
\* forward difference at the start, the backward difference at the end, the
\* central difference in between.  (tension = 0.5; normalize_or_zero does not
\* depend on the positive factor.)
tangent(s, k) ==
    IF k = 1 THEN << 2 * (s[2][1] - s[1][1]), 2 * (s[2][2] - s[1][2]) >>
    ELSE IF k = Len(s)
    THEN << 2 * (s[k][1] - s[k - 1][1]), 2 * (s[k][2] - s[k - 1][2]) >>
    ELSE << s[k + 1][1] - s[k - 1][1], s[k + 1][2] - s[k - 1][2] >>

\* let normal = tangent.rotate(Vec2::from_angle(PI / -2.0)) * 20.0;
normal(t) == rotate(NumVec(normalize_or_zero(t)), FromAngleMinusHalfPi)

\* An inner offset that is the outer one turned by another quarter turn.
normal2_quarter_turn(n) == rotate(n, FromAngleMinusHalfPi)

\* let normal2 = normal.rotate(Vec2::from_angle(PI));
normal2(n) == rotate(n, FromAnglePi)

\* One iteration of the loop: the pair pushed for the k-th sample.
boundary_pair(s, k) ==
    LET n == normal(tangent(s, k))
    IN  << NumVecAdd(NumVec(s[k]), n), NumVecAdd(NumVec(s[k]), normal2(n)) >>

\* compute_bounds, and the same loop in RaceTrack::get_bounds: the pairs, or
\* the panic of the index past the end that the first iteration reads when
\* the list has one sample.
compute_bounds(s) ==
    IF Len(s) = 1
    THEN [pairs |-> <<>>, panicked |-> TRUE, fault |-> "index_out_of_bounds"]
    ELSE [pairs |-> [k \in 1..Len(s) |-> boundary_pair(s, k)],
          panicked |-> FALSE, fault |-> "none"]

\* ------------------------------------------------------------ tessellation
\* let indices = vec![0, 2, 3, 0, 1, 3];
QuadIndices == << 0, 2, 3, 0, 1, 3 >>

\* A tessellation that does not close the ring: no quad from the last pair.
tessellate_strip(b) ==
    [k \in 1..(IF Len(b) = 0 THEN 0 ELSE Len(b) - 1) |->
        [vertices |-> << b[k][1], b[k][2], b[k + 1][1], b[k + 1][2] >>,
         indices |-> QuadIndices]]

\* The loop over bounds.iter().enumerate() in update_curve and
\* instantiate_track: one quad per pair, from the pair and the next one, the
\* last quad from the last pair and pair 0.
tessellate(b) ==
    [k \in 1..Len(b) |->
        LET p0 == b[k][1]
            p1 == b[k][2]
            next == IF k - 1 = Len(b) - 1 THEN b[1] ELSE b[k + 1]
        IN  [vertices |-> << p0, p1, next[1], next[2] >>, indices |-> QuadIndices]]

\* ----------------------------------------------------------------- actions
\* A sample list has been collected.
GeometryInit ==
    /\ CatalogParked
    /\ EditorParked
    /\ overflow_checks \in BOOLEAN
    /\ panicked = FALSE
    /\ fault = "none"
    /\ samples \in UNION { SampleLists(n) : n \in 0..MaxSamples }
    /\ bounds = <<>>
    /\ mesh = <<>>
    /\ stage = "sampled"

ComputeBounds ==
    /\ ~panicked
    /\ stage = "sampled"
    /\ LET o == compute_bounds(samples)
       IN  /\ bounds' = o.pairs
           /\ panicked' = o.panicked
           /\ fault' = o.fault
    /\ stage' = "compute_bounds"
    /\ UNCHANGED << catalog_vars, overflow_checks, editor_vars, samples, mesh >>

Tessellate ==
    /\ ~panicked
    /\ stage = "compute_bounds"
    /\ mesh' = tessellate(bounds)
    /\ stage' = "tessellate"
    /\ UNCHANGED << catalog_vars, overflow_checks, panicked, fault, editor_vars,
                    samples, bounds >>

GeometryNext ==
    \/ ComputeBounds
    \/ Tessellate

GeometrySpec == GeometryInit /\ [][GeometryNext]_vars

\* ------------------------------------------------- repeated advance/retreat
\* The selection after k successive calls of get_next_track on (t, idx); a
\* panic on the way is reported as Some("panic").
RECURSIVE AdvanceTimes(_, _, _, _)
AdvanceTimes(k, t, idx, oc) ==
    IF k = 0 THEN idx
    ELSE LET o == get_next_track(t, idx, oc)
         IN  IF o.panicked THEN Some("panic")
             ELSE AdvanceTimes(k - 1, t, o.current_track_index, oc)

\* The selection after k successive calls of get_prev_track on (t, idx).
RECURSIVE RetreatTimes(_, _, _, _)
RetreatTimes(k, t, idx, oc) ==
    IF k = 0 THEN idx
    ELSE LET o == get_prev_track(t, idx, oc)
         IN  IF o.panicked THEN Some("panic")
             ELSE RetreatTimes(k - 1, t, o.current_track_index, oc)

\* ------------------------------------------------------------------ claims

\* C1: in every reachable state current_track_index is None or Some(i) with
\* 0 <= i < len(tracks).
IndexInvariant ==
    \/ current_track_index = None
    \/ current_track_index[1] < Len(tracks)

\* C2: no call ever performs an out-of-range removal or computes len - 1 on
\* an empty list.
NoIndexError == fault = "none"

\* C3: on a catalog of n >= 1 tracks get_next_track moves Some(i) to
\* (i+1) mod n, get_prev_track moves Some(i) to (i-1) mod n, either moves None
\* to 0, and the track returned is the one at the new index.
AdvanceRetreatWraps ==
    (last_op \in {"get_next_track", "get_prev_track"} /\ Len(pre_tracks) >= 1) =>
        LET n == Len(pre_tracks)
            want == IF pre_index = None THEN 0
                    ELSE IF last_op = "get_next_track"
                         THEN (pre_index[1] + 1) % n
                         ELSE (pre_index[1] - 1) % n
        IN  /\ pre_index # None => pre_index[1] < n
            /\ ~panicked
            /\ current_track_index = Some(want)
            /\ ret = Some(tracks[want + 1])

\* C3 witness: with 3 tracks, advance from 2 has yielded 0.
AdvanceWrapped ==
    /\ last_op = "get_next_track"
    /\ Len(tracks) = 3
    /\ pre_index = Some(2)
    /\ current_track_index = Some(0)
    /\ ret = Some(tracks[1])

\* C4: on an empty collection get_next_track and get_prev_track return no
\* track and leave the track list and the selection (None) unchanged.
EmptyAdvanceIsNoOp ==
    (last_op \in {"get_next_track", "get_prev_track"} /\ pre_tracks = <<>>) =>
        /\ ret = None
        /\ tracks = pre_tracks
        /\ current_track_index = pre_index
        /\ current_track_index = None

\* C5: delete_current_track with selection Some(i) removes exactly the track
\* at index i and leaves the selection None; with selection None it changes
\* nothing.
DeleteRemovesSelected ==
    last_op = "delete_current_track" =>
        IF pre_index = None
        THEN tracks = pre_tracks /\ current_track_index = None
        ELSE /\ ~panicked
             /\ Len(tracks) = Len(pre_tracks) - 1
             /\ \A k \in 1..Len(tracks) :
                   tracks[k] = IF k <= pre_index[1] THEN pre_tracks[k] ELSE pre_tracks[k + 1]
             /\ current_track_index = None

\* C6: new_track appends exactly one track named "Track " + (count before + 1)
\* with the two-point seed path, leaves the existing tracks unchanged and
\* selects the new last track.
NewTrackAppends ==
    last_op = "new_track" =>
        /\ ~panicked
        /\ Len(tracks) = Len(pre_tracks) + 1
        /\ SubSeq(tracks, 1, Len(pre_tracks)) = pre_tracks
        /\ tracks[Len(tracks)].track_name = "Track " \o ToString(Len(pre_tracks) + 1)
        /\ tracks[Len(tracks)].points = << <<-500, -200>>, <<-500, -150>> >>
        /\ current_track_index = Some(Len(tracks) - 1)

\* C6 witness: new_track ran on a catalog of two tracks with nothing selected.
NewTrackOnUnselected ==
    /\ last_op = "new_track"
    /\ Len(pre_tracks) = 2
    /\ pre_index = None
    /\ tracks[3].track_name = "Track 3"
    /\ current_track_index = Some(2)

\* C7: no two tracks of the collection have the same track_name.
TrackNamesUnique ==
    \A i, j \in 1..Len(tracks) :
        i # j => tracks[i].track_name # tracks[j].track_name

\* C8: current_track_index is None exactly when the collection is empty or
\* the most recent operation that changed the catalog was a deletion.
SelectionNoneExactly ==
    (current_track_index = None) <=>
        (Len(tracks) = 0 \/ last_mutation = "delete_current_track")

\* C9: update_current_track replaces the point list of the selected track
\* only; names, the other tracks, the length and the selection are unchanged,
\* and with nothing selected the whole catalog is unchanged.
UpdateReplacesOnlyCurrentPoints ==
    last_op = "update_current_track" =>
        /\ ~panicked
        /\ current_track_index = pre_index
        /\ Len(tracks) = Len(pre_tracks)
        /\ \A k \in 1..Len(tracks) :
              /\ tracks[k].track_name = pre_tracks[k].track_name
              /\ tracks[k].points =
                    IF pre_index = Some(k - 1) THEN last_arg[1] ELSE pre_tracks[k].points
        /\ pre_index = None => tracks = pre_tracks

\* C9 witness: the second of three tracks was selected and its seed path has
\* been replaced.
UpdatedSecondTrack ==
    /\ last_op = "update_current_track"
    /\ Len(tracks) = 3
    /\ pre_index = Some(1)
    /\ pre_tracks[2].points = SeedPath
    /\ tracks[2].points # SeedPath

\* C10 as stated: from every starting selection, len(tracks) calls of
\* get_next_track, and likewise of get_prev_track, return the selection to
\* its starting value.
ClosureLawAnySelection ==
    ~panicked =>
        /\ AdvanceTimes(Len(tracks), tracks, current_track_index, overflow_checks)
              = current_track_index
        /\ RetreatTimes(Len(tracks), tracks, current_track_index, overflow_checks)
              = current_track_index

\* C10 amended: from every starting selection Some(i) with i < len(tracks),
\* len(tracks) calls of get_next_track, and likewise of get_prev_track,
\* return the selection to Some(i).
ClosureLaw ==
    /\ (~panicked /\ current_track_index # None
          /\ current_track_index[1] < Len(tracks)) =>
          /\ AdvanceTimes(Len(tracks), tracks, current_track_index, overflow_checks)
                = current_track_index
          /\ RetreatTimes(Len(tracks), tracks, current_track_index, overflow_checks)
                = current_track_index
    /\ (~panicked /\ last_op \in {"get_next_track", "get_prev_track"}
          /\ run_len = Len(tracks) /\ run_start # None
          /\ run_start[1] < Len(tracks)) =>
          current_track_index = run_start

\* C10 witness: three successive get_next_track calls on three tracks, begun
\* at Some(1), have ended at Some(1).
AdvancedFullCircle ==
    /\ last_op = "get_next_track"
    /\ run_len = 3
    /\ Len(tracks) = 3
    /\ run_start = Some(1)
    /\ current_track_index = Some(1)

\* C11: store_track appends the track as the new last element whatever its
\* name, leaves the existing tracks unchanged and selects the stored track.
StoreTrackAppends ==
    last_op = "store_track" =>
        /\ ~panicked
        /\ Len(tracks) = Len(pre_tracks) + 1
        /\ SubSeq(tracks, 1, Len(pre_tracks)) = pre_tracks
        /\ tracks[Len(tracks)] = last_arg[1]
        /\ current_track_index = Some(Len(tracks) - 1)

\* C11 witness: a track named like the first track of the list has been
\* stored behind it, with different points, while the first was selected.
StoredSameNameBehind ==
    /\ last_op = "store_track"
    /\ Len(tracks) = 2
    /\ pre_index = Some(0)
    /\ tracks[1].track_name = "Track 1"
    /\ tracks[2].track_name = "Track 1"
    /\ tracks[1].points # tracks[2].points
    /\ current_track_index = Some(1)


\* ------------------------------------------------------- claims, the editor

\* C12: a point list of length 0 or 1 is regenerated without an abort: no
\* system ever unwraps a missing curve.
DegenerateInputHandled == fault # "unwrap_on_none_curve"

\* C13: the editor's load command never panics on a missing or malformed
\* document: handle_keypress never ends in the panic of a failed read or a
\* failed parse.
LoadNeverFails ==
    ~(ev.system = "handle_keypress" /\ fault \in {"io_error", "parse_error"})


\* C14: the live TrackPart geometry is exactly the set produced by the most
\* recent regeneration: at most one batch is alive, and right after a
\* regeneration it is the batch of that run, one quad per sample of the
\* regenerated point list.
RetireBeforeInsert ==
    /\ Len(track_parts) <= 1
    /\ ev.regenerated =>
          /\ Len(track_parts) = 1
          /\ track_parts[1].by = ev.system
          /\ ev.system = "update_curve" =>
                /\ track_parts[1].points = points
                /\ track_parts[1].quads = SampleCount(EditorResolution * Len(points))
          /\ ev.system = "instantiate_track" =>
                /\ track_parts[1].points = current_track[1].points
                /\ track_parts[1].quads =
                       SampleCount(RESOLUTION * Len(current_track[1].points))

\* C14 witness: instantiate_track has just regenerated a track after the
\* editor had built the geometry of a longer point list.
InstantiatedAfterEditorBuild ==
    /\ ev.system = "instantiate_track"
    /\ ev.regenerated
    /\ built # None
    /\ Len(built[1]) = 3
    /\ Len(track_parts) = 1
    /\ track_parts[1].quads = SampleCount(RESOLUTION * 2)


\* C15: update_curve retires and regenerates in a frame only if the point
\* list differs from the one of the previous regeneration.
ChangeGatedRecomputation ==
    (~panicked /\ system = "update_curve" /\ update_curve(EditorState).regenerated) =>
        (built = None \/ built[1] # points)


\* C16: whenever handle_mouse_press reads a primary-button event: a press
\* while Idle moves to Pressed(start) with start the press location, a press
\* while Pressed leaves the start unchanged, a release while Pressed appends
\* the world-space conversion of the press location and returns to Idle, a
\* release while Idle changes nothing, and no other point is modified.
AddGestureAlways ==
    (~panicked /\ system = "handle_mouse_press") =>
        \A state \in ButtonStates, cam_ok \in BOOLEAN :
            LET pre == EditorState
                st == handle_mouse_press(pre, << [button |-> "Left", state |-> state] >>,
                                         cam_ok)
            IN  /\ ~st.panicked
                /\ (state = "Pressed" /\ pre.edit_move = None) =>
                       /\ pre.mouse_position # None
                       /\ st = [pre EXCEPT !.edit_move = pre.mouse_position]
                /\ (state = "Pressed" /\ pre.edit_move # None) => st = pre
                /\ (state = "Released" /\ pre.edit_move # None) =>
                       st = [pre EXCEPT
                               !.points = Append(@, ViewportToWorld(pre.edit_move[1])),
                               !.cp_changed = TRUE,
                               !.edit_move = None]
                /\ (state = "Released" /\ pre.edit_move = None) => st = pre

\* C16, amended: the same with the cursor position known and the conversion
\* of the press location succeeding; an event read while the cursor position
\* is unknown, and a release whose conversion fails, change nothing.
AddGesture ==
    (~panicked /\ system = "handle_mouse_press") =>
        \A state \in ButtonStates, cam_ok \in BOOLEAN :
            LET pre == EditorState
                st == handle_mouse_press(pre, << [button |-> "Left", state |-> state] >>,
                                         cam_ok)
                known == pre.mouse_position # None
            IN  /\ ~st.panicked
                /\ ~known => st = pre
                /\ (known /\ state = "Pressed" /\ pre.edit_move = None) =>
                       st = [pre EXCEPT !.edit_move = pre.mouse_position]
                /\ (state = "Pressed" /\ pre.edit_move # None) => st = pre
                /\ (known /\ state = "Released" /\ pre.edit_move # None /\ cam_ok) =>
                       st = [pre EXCEPT
                               !.points = Append(@, ViewportToWorld(pre.edit_move[1])),
                               !.cp_changed = TRUE,
                               !.edit_move = None]
                /\ (state = "Released" /\ pre.edit_move # None /\ ~cam_ok) => st = pre
                /\ (state = "Released" /\ pre.edit_move = None) => st = pre

\* C16 witness: a gesture pressed at one cursor position and released at
\* another has appended the conversion of the press location as third point.
AddedPointAtPressLocation ==
    /\ ev.system = "handle_mouse_press"
    /\ cp_changed
    /\ edit_move = None
    /\ mouse_position = Some(<<740, 260>>)
    /\ points = Append(SeedPath, ViewportToWorld(<<100, 100>>))


\* C17: while a point of the list is selected, a secondary-button release
\* that ends a move gesture overwrites the selected point with the conversion
\* of the release location and leaves the point count, the other points and
\* the selection unchanged; with no selection, secondary-button events
\* change nothing.
MoveGestureWritesReleaseLocation ==
    (~panicked /\ system = "handle_mouse_press" /\ mouse_position # None) =>
        \A state \in ButtonStates :
            LET pre == EditorState
                st == handle_mouse_press(pre, << [button |-> "Right", state |-> state] >>,
                                         TRUE)
            IN  /\ pre.selected = None => st = pre
                /\ (/\ pre.selected # None
                    /\ pre.selected[1] < Len(pre.points)
                    /\ pre.move_move # None
                    /\ state = "Released") =>
                       /\ st.points = [pre.points EXCEPT ![pre.selected[1] + 1] =
                                          ViewportToWorld(pre.mouse_position[1])]
                       /\ st.selected = pre.selected

\* C18: the delete command removes exactly the point at the selected index
\* and clears the selection, or with nothing selected removes the last point
\* (nothing on an empty list); the remaining points keep their order.
DeleteCommand ==
    (~panicked /\ system = "handle_keypress") =>
        LET pre == EditorState
            st == handle_keypress(pre, {"KeyR"}, TRUE, overflow_checks)
        IN  /\ ~st.panicked
            /\ pre.selected # None =>
                   /\ st.points = VecRemove(pre.points, pre.selected[1])
                   /\ st.selected = None
            /\ pre.selected = None =>
                   /\ st.points = VecPop(pre.points)
                   /\ st.selected = None

\* C19: with n points and selection Some(i) the right command selects
\* (i+1) mod n and the left command (i-1) mod n; with no selection either
\* selects 0; neither changes the point list.
SelectionCycling ==
    (~panicked /\ system = "handle_keypress") =>
        \A key \in {"ArrowLeft", "ArrowRight"} :
            LET pre == EditorState
                n == Len(pre.points)
                st == handle_keypress(pre, {key}, TRUE, overflow_checks)
            IN  /\ ~st.panicked
                /\ st.points = pre.points
                /\ pre.selected = None => st.selected = Some(0)
                /\ pre.selected # None =>
                       /\ n > 0
                       /\ st.selected =
                              Some(IF key = "ArrowRight" THEN (pre.selected[1] + 1) % n
                                   ELSE (pre.selected[1] - 1) % n)

\* C20: the document save writes loads back as a track with the saved
\* points, element for element; saving and loading in one frame leaves the
\* point list as it was; and load replaces the point list with the points of
\* the document on disk.
PersistenceRoundTrip ==
    (~panicked /\ system = "handle_keypress") =>
        LET pre == EditorState
            saved == handle_keypress(pre, {"KeyS"}, TRUE, overflow_checks)
            both == handle_keypress(pre, {"KeyS", "KeyL"}, TRUE, overflow_checks)
            loaded == handle_keypress(pre, {"KeyL"}, TRUE, overflow_checks)
        IN  /\ load_from_file(saved.file) =
                   [track |-> Some(RaceTrack("Test Track", pre.points)), fault |-> "none"]
            /\ ~both.panicked /\ both.points = pre.points
            /\ ~loaded.panicked =>
                   /\ pre.file.exists /\ pre.file.json # None
                   /\ Len(loaded.points) = Len(pre.file.json[1].obj.points.arr)
                   /\ \A k \in 1..Len(loaded.points) :
                          Vec2ToJson(loaded.points[k]) = pre.file.json[1].obj.points.arr[k]

\* C20 witness: handle_keypress has just loaded back a saved three-point
\* list over the two-point list the track was last built from.
LoadedBackSavedPoints ==
    /\ ev.system = "handle_keypress"
    /\ ~panicked
    /\ Len(points) = 3
    /\ file = TextFile(Some(RaceTrackToJson(RaceTrack("Test Track", points))))
    /\ built # None
    /\ Len(built[1]) = 2


\* ------------------------------------------------------ claims, the geometry

\* C21: the boundary pair sequence of a regeneration, and with it the batch
\* of quads, has exactly as many elements as the sampling resolution, a
\* constant multiple of the curve's segment count.
BoundsLengthIsResolution ==
    ev.regenerated =>
        track_parts[1].quads =
            (IF ev.system = "update_curve" THEN EditorResolution ELSE RESOLUTION)
                * Len(track_parts[1].points)

\* C22: instantiating a track of four control points forming an axis-aligned
\* square produces exactly 4 quads and 4 collision hulls.
SquareScenario ==
    (/\ ev.system = "instantiate_track"
     /\ ev.regenerated
     /\ current_track[1].track_name = "Square") =>
        track_parts[1].quads = 4


\* C23: form_curve returns no curve exactly when the point list has fewer
\* than 2 points, and for n >= 2 points a closed curve of exactly n segments
\* (the last segment ends at the first point); this for the editor's point
\* list and for the track handed to gameplay.
CurveFit ==
    \A pts \in {points} \cup (IF current_track = None THEN {}
                              ELSE {current_track[1].points}) :
        LET c == form_curve(pts)
            n == Len(pts)
        IN  /\ (c = None) <=> (n < 2)
            /\ n >= 2 =>
                   /\ c[1].segments = n
                   /\ CyclicSegments(pts)[1][2] = pts[1]
                   /\ CyclicSegments(pts)[n][3] = pts[1]
                   /\ \A k \in 1..(n - 1) :
                          CyclicSegments(pts)[k][3] = CyclicSegments(pts)[k + 1][2]

\* C23 witness: update_curve has fitted the curve to a list of one point and
\* stored no curve.
FittedNoCurve ==
    /\ ev.system = "update_curve"
    /\ Len(points) = 1
    /\ curve = None
    /\ form_curve(points) = None


ComputeBoundsTotal ==
    stage = "compute_bounds" =>
        /\ ~panicked
        /\ Len(bounds) = Len(samples)


\* ------------------------------------------------ claims, the two gestures

\* C25: a primary-button event never changes the move gesture's state, the
\* selection or an existing point, and a secondary-button event never
\* changes the add gesture's state or the number of points, in whatever
\* state of the two gestures the event arrives.
GesturesIndependent ==
    (~panicked /\ system = "handle_mouse_press") =>
        \A state \in ButtonStates, cam_ok \in BOOLEAN :
            LET pre == EditorState
                l == handle_mouse_press(pre, << [button |-> "Left", state |-> state] >>,
                                        cam_ok)
                r == handle_mouse_press(pre, << [button |-> "Right", state |-> state] >>,
                                        cam_ok)
            IN  /\ l.move_move = pre.move_move
                /\ l.selected = pre.selected
                /\ Len(l.points) >= Len(pre.points)
                /\ SubSeq(l.points, 1, Len(pre.points)) = pre.points
                /\ r.edit_move = pre.edit_move
                /\ Len(r.points) = Len(pre.points)

\* C25 witness: a move gesture has been completed on one of two points
\* while an add gesture was pending, and the add gesture is still pending.
MovedWhileAddPending ==
    /\ ev.system = "handle_mouse_press"
    /\ ~panicked
    /\ edit_move # None
    /\ move_move = None
    /\ selected = Some(1)
    /\ built = Some(SeedPath)
    /\ Len(points) = 2
    /\ points[1] = SeedPath[1]
    /\ points[2] # SeedPath[2]

\* C28: ControlPoints.selected is None or an index strictly less than the
\* number of points.
SelectionInRange ==
    \/ selected = None
    \/ selected[1] < Len(points)

\* C29: a move gesture pressed while point i is selected overwrites no other
\* point than i when the selection is cycled before the button is released.
MoveAppliesToPressedPoint ==
    (/\ ~panicked
     /\ system = "handle_mouse_press"
     /\ mouse_position # None
     /\ selected # None
     /\ selected[1] < Len(points)
     /\ move_move = None) =>
        \A key \in {"ArrowLeft", "ArrowRight"} :
            LET pressed == handle_mouse_press(EditorState,
                               << [button |-> "Right", state |-> "Pressed"] >>, TRUE)
                built_ == update_curve(pressed)
                cycled == handle_keypress(built_, {key}, TRUE, overflow_checks)
                released == handle_mouse_press(cycled,
                               << [button |-> "Right", state |-> "Released"] >>, TRUE)
            IN  (~built_.panicked /\ ~cycled.panicked) =>
                    \A k \in 1..Len(points) :
                        k # selected[1] + 1 => released.points[k] = points[k]

\* C30: a release whose conversion fails modifies nothing and leaves the
\* gesture Pressed with its start; a press while Pressed is ignored; a
\* gesture returns to Idle only by a release that applied its point; and the
\* keys leave both gestures as they are.
FailedConversionKeepsGesture ==
    /\ (~panicked /\ system = "handle_mouse_press") =>
          \A b \in {"Left", "Right"}, state \in ButtonStates, cam_ok \in BOOLEAN :
              LET pre == EditorState
                  st == handle_mouse_press(pre, << [button |-> b, state |-> state] >>,
                                           cam_ok)
                  start(s) == IF b = "Left" THEN s.edit_move ELSE s.move_move
              IN  /\ (state = "Released" /\ ~cam_ok) => st = pre
                  /\ (state = "Pressed" /\ start(pre) # None) => st = pre
                  /\ (start(pre) # None /\ start(st) = None) =>
                         /\ state = "Released"
                         /\ cam_ok
                         /\ ~st.panicked
                         /\ st.points =
                                IF b = "Left"
                                THEN Append(pre.points, ViewportToWorld(start(pre)[1]))
                                ELSE [pre.points EXCEPT ![pre.selected[1] + 1] =
                                         ViewportToWorld(start(pre)[1])]
    /\ (~panicked /\ system = "handle_keypress") =>
          \A key \in AllKeys :
              LET st == handle_keypress(EditorState, {key}, TRUE, overflow_checks)
              IN  st.edit_move = edit_move /\ st.move_move = move_move

\* C30 witness: both gestures are Pressed, a point of the list is selected,
\* and a secondary-button release whose conversion fails leaves the move
\* gesture Pressed with its start.
ReleaseFailsWhilePressed ==
    /\ ~panicked
    /\ system = "handle_mouse_press"
    /\ edit_move # None
    /\ move_move # None
    /\ move_move # mouse_position
    /\ selected # None
    /\ selected[1] < Len(points)
    /\ handle_mouse_press(EditorState, << [button |-> "Right", state |-> "Released"] >>,
                          FALSE).move_move = move_move

\* C31: whenever spawn_level has run on a loaded catalog it did not panic,
\* the catalog selection is None or a valid index, and CurrentTrack is None or
\* a track of the catalog.
StartingGameplayNeverFails ==
    last_op = "spawn_level" =>
        /\ ~panicked
        /\ current_track_index = None \/ current_track_index[1] < Len(tracks)
        /\ \/ current_track = None
           \/ \E k \in 1..Len(tracks) : tracks[k] = current_track[1]

====
